---- MODULE Spec2Model ----
(***************************************************************************)
(* A model of utils_keyinput.py: the HSDataManager corpus loader, keyword  *)
(* index and retriever, the HS code extractor, the explanation lookup and  *)
(* the question classifier.                                                *)
(*                                                                         *)
(* Python strings are sequences of one-character strings, so that the      *)
(* regular expressions, split(), strip(), lower(), str() and eval() of the *)
(* source are computed and not assumed.  The Korean file names of the      *)
(* source are written in ASCII: "HS_case_part" for the classification-case *)
(* partitions, "HS_committee" and "HS_council" for the two decision files. *)
(***************************************************************************)
EXTENDS Integers, Sequences, FiniteSets, TLC

VARIABLES
    disk,            \* the knowledge/ directory: path -> [exists, records]
    data,            \* HSDataManager.data, a dict in insertion order
    search_index,    \* HSDataManager.search_index: keyword -> list of (source, item)
    phase,           \* "new" before __init__ has run, "ready" after it, "failed" if it raised
    raised,          \* the exception that escaped the last call, or "none"
    lastCall,        \* the last retriever call: [op, query, max_results, order]
    results,         \* search's local `results`, in first-seen order
    sorted_results,  \* search's local `sorted_results`
    returned,        \* the list search returned
    context,         \* the string get_relevant_context returned
    text,            \* the argument of extract_hs_codes
    matches,         \* extract_hs_codes' local `matches`
    hs_codes,        \* the list extract_hs_codes returned
    codesDone,       \* extract_hs_codes has returned
    reference,       \* the reference file lookup_hscode reads: [exists, entries]
    hs_code,         \* the argument of lookup_hscode
    lookup,          \* what lookup_hscode returned: [done, explanation,
                     \* type_explanation, number_explanation]
    llm,             \* what the generative call will do: [raises, text]
    api_key,         \* classify_question's api_key argument
    configured,      \* genai.configure has been called
    answer           \* what classify_question returned: [done, raised, label]

managerVars == <<disk, data, search_index, phase, raised, lastCall, results,
                 sorted_results, returned, context>>
codesVars == <<text, matches, hs_codes, codesDone>>
lookupVars == <<reference, hs_code, lookup>>
classifyVars == <<llm, api_key, configured, answer>>
vars == <<managerVars, codesVars, lookupVars, classifyVars>>

-----------------------------------------------------------------------------
(* Bounds of the model.                                                    *)

\* The longest record list a corpus file holds.
MaxRecs == 2

-----------------------------------------------------------------------------
(* Characters.                                                             *)

LowerCase == <<"a", "b", "c", "d", "e", "f", "g", "h", "i", "j", "k", "l", "m",
               "n", "o", "p", "q", "r", "s", "t", "u", "v", "w", "x", "y", "z">>
UpperCase == <<"A", "B", "C", "D", "E", "F", "G", "H", "I", "J", "K", "L", "M",
               "N", "O", "P", "Q", "R", "S", "T", "U", "V", "W", "X", "Y", "Z">>
Letters == {LowerCase[i] : i \in 1..26} \cup {UpperCase[i] : i \in 1..26}
DigitChars == {"0", "1", "2", "3", "4", "5", "6", "7", "8", "9"}
\* \w of a Python 3 str pattern: letters, digits and the underscore.
IsWordChar(c) == c \in Letters \cup DigitChars \cup {"_"}
\* \s of a Python 3 str pattern, and what str.split() and str.strip() cut at.
IsSpaceChar(c) == c \in {" ", "\n", "\t"}

RECURSIVE Concat(_)
\* "".join(parts) over a sequence of character sequences.
Concat(parts) ==
    IF parts = <<>> THEN <<>> ELSE Head(parts) \o Concat(Tail(parts))

\* The elements of a sequence.
Range(s) == {s[i] : i \in 1..Len(s)}

\* Every ordering of a finite set, as sequences without repetition.
Orderings(S) ==
    {o \in [1..Cardinality(S) -> S] : \A i, j \in 1..Cardinality(S) : i # j => o[i] # o[j]}

-----------------------------------------------------------------------------
(* _extract_keywords (lines 61-72).                                        *)

\* re.sub(r'[^\w\s]', ' ', text): every character that is neither a word
\* character nor whitespace becomes one space.
StripPunctuation(t) ==
    [i \in 1..Len(t) |-> IF IsWordChar(t[i]) \/ IsSpaceChar(t[i]) THEN t[i] ELSE " "]

RECURSIVE SplitFrom(_, _, _, _)
\* str.split() with no argument: the maximal runs of non-whitespace, in order.
SplitFrom(t, i, cur, acc) ==
    IF i > Len(t)
    THEN IF cur = <<>> THEN acc ELSE Append(acc, cur)
    ELSE IF IsSpaceChar(t[i])
         THEN SplitFrom(t, i + 1, <<>>, IF cur = <<>> THEN acc ELSE Append(acc, cur))
         ELSE SplitFrom(t, i + 1, Append(cur, t[i]), acc)

Split(t) == SplitFrom(t, 1, <<>>, <<>>)

\* set(word for word in words if len(word) >= 2)
KeywordSet(t) ==
    LET words == Split(StripPunctuation(t))
    IN {words[i] : i \in {j \in 1..Len(words) : Len(words[j]) >= 2}}

\* _extract_keywords returns list(set(...)): the keywords in an order the
\* language does not fix (string hashing is seeded per process), so every
\* ordering of the set is a possible return value.
ExtractKeywords(t) == Orderings(KeywordSet(t))

-----------------------------------------------------------------------------
(* Records and their serializations.                                       *)
(* A record is a dict of string fields: a sequence of <<key, value>> pairs *)
(* in insertion order, keys and values being character sequences that hold *)
(* no quote and no backslash (str() and json.dumps() escape those).         *)

\* The separator str.join puts between the parts.
RECURSIVE Join(_, _)
Join(parts, sep) ==
    IF parts = <<>> THEN <<>>
    ELSE IF Len(parts) = 1 THEN parts[1]
    ELSE parts[1] \o sep \o Join(Tail(parts), sep)

\* repr() of a str without quotes: the text between single quotes.
Repr(s) == <<"'">> \o s \o <<"'">>

\* str(item) of a dict (lines 56 and 90): {'k': 'v', 'k2': 'v2'}
Str(item) ==
    <<"{">>
    \o Join([i \in 1..Len(item) |-> Repr(item[i][1]) \o <<":", " ">> \o Repr(item[i][2])],
            <<",", " ">>)
    \o <<"}">>

\* json.dumps(item, ensure_ascii=False) of such a dict (line 113): {"k": "v"}
JsonDumps(item) ==
    <<"{">>
    \o Join([i \in 1..Len(item) |->
                <<"\"">> \o item[i][1] \o <<"\"", ":", " ", "\"">> \o item[i][2] \o <<"\"">>],
            <<",", " ">>)
    \o <<"}">>

\* The index of the first quote at or after position i.
RECURSIVE NextQuote(_, _)
NextQuote(s, i) == IF s[i] = "'" THEN i ELSE NextQuote(s, i + 1)

\* A quoted string literal starting at s[i]: its value and the position after it.
ReadLiteral(s, i) ==
    LET close == NextQuote(s, i + 1)
    IN [value |-> SubSeq(s, i + 1, close - 1), next |-> close + 1]

RECURSIVE EvalPairs(_, _, _)
\* The key: value pairs of a dict display, from position i to the closing brace.
EvalPairs(s, i, acc) ==
    IF s[i] = "}" THEN acc
    ELSE LET k == ReadLiteral(s, i)
             v == ReadLiteral(s, k.next + 2)
             after == IF s[v.next] = "," THEN v.next + 2 ELSE v.next
         IN EvalPairs(s, after, Append(acc, <<k.value, v.value>>))

\* eval(item_str) (line 97): the dict that the dict display item_str denotes.
Eval(item_str) == EvalPairs(item_str, 2, <<>>)

\* The records of the modelled corpora.
FieldName == <<"n", "m">>
RecTv == << <<FieldName, <<"t", "v">>>> >>
RecPc == << <<FieldName, <<"p", "c">>>> >>
RecTvPc == << <<FieldName, <<"t", "v", "-", "p", "c", " ", "a">>>> >>
Records == {RecTv, RecPc, RecTvPc}

\* Every list of at most n records.
RecordLists(n) == UNION {[1..k -> Records] : k \in 0..n}

-----------------------------------------------------------------------------
(* The corpus files and load_all_data (lines 24-45).                       *)

\* range(1, 11) runs over the partitions 1..NumParts.
NumParts == 10

\* f'{i}' for the partition numbers.
FormatInt(i) == <<"1", "2", "3", "4", "5", "6", "7", "8", "9", "10">>[i]

\* f'knowledge/HS_case_part{i}.json', kept as its parts.
PartPath(i) == <<"knowledge/", "HS_case_part", FormatInt(i), ".json">>
\* f'HS_case_part{i}', the key the partition is stored under.
PartKey(i) == <<"HS_case_part", FormatInt(i)>>

\* other_files (line 39).
OtherFiles == << <<"knowledge/", "HS_committee", ".json">>,
                 <<"knowledge/", "HS_council", ".json">> >>

\* file.replace('.json', '') (line 43): the path without its '.json' parts.
ReplaceJson(file) == SelectSeq(file, LAMBDA part : part # ".json")

AllPaths == {PartPath(i) : i \in 1..NumParts} \cup Range(OtherFiles)

\* A file that is not on disk.
Absent == [exists |-> FALSE, records |-> <<>>]
\* A file on disk that holds the JSON array recs.
Present(recs) == [exists |-> TRUE, records |-> recs]

\* open(path) then json.load(f): the records read, or the exception raised.
OpenAndLoad(d, path) ==
    IF d[path].exists
    THEN [exc |-> "none", value |-> d[path].records]
    ELSE [exc |-> "FileNotFoundError", value |-> <<>>]

\* self.data[key] = value on a dict kept in insertion order.
DictSet(dict, key, value) ==
    IF \E i \in 1..Len(dict) : dict[i].source = key
    THEN [i \in 1..Len(dict) |->
            IF dict[i].source = key THEN [source |-> key, items |-> value] ELSE dict[i]]
    ELSE Append(dict, [source |-> key, items |-> value])

\* One try/except of load_all_data without the except clause: the
\* FileNotFoundError escapes and ends the load.
LoadOneUncaught(st, path, key) ==
    IF st.raised # "none" THEN st
    ELSE LET r == OpenAndLoad(st.disk, path)
         IN IF r.exc = "none"
            THEN [st EXCEPT !.data = DictSet(st.data, key, r.value)]
            ELSE [st EXCEPT !.raised = r.exc]

\* One try/except of load_all_data (lines 32-36 and 41-45): the records are
\* stored under key; FileNotFoundError is caught (a warning is printed) and
\* any other exception escapes.
LoadOne(st, path, key) ==
    IF st.raised # "none" THEN st
    ELSE LET r == OpenAndLoad(st.disk, path)
         IN IF r.exc = "none"
            THEN [st EXCEPT !.data = DictSet(st.data, key, r.value)]
            ELSE IF r.exc = "FileNotFoundError"
                 THEN st
                 ELSE [st EXCEPT !.raised = r.exc]

RECURSIVE LoadParts(_, _)
\* for i in range(1, 11) (lines 31-36).
LoadParts(st, i) ==
    IF i > NumParts THEN st
    ELSE LoadParts(LoadOne(st, PartPath(i), PartKey(i)), i + 1)

RECURSIVE LoadOthers(_, _)
\* for file in other_files (lines 40-45).
LoadOthers(st, i) ==
    IF i > Len(OtherFiles) THEN st
    ELSE LoadOthers(LoadOne(st, OtherFiles[i], ReplaceJson(OtherFiles[i])), i + 1)

\* load_all_data on an empty self.data: [disk, data, raised] after it.
LoadAllData(d) ==
    LoadOthers(LoadParts([disk |-> d, data |-> <<>>, raised |-> "none"], 1), 1)

-----------------------------------------------------------------------------
(* build_search_index (lines 47-59).                                       *)

\* self.search_index[keyword].append((source, item)) for every keyword of a
\* set: on a defaultdict(list) a missing keyword starts from the empty list.
\* The buckets do not depend on the order the keywords are taken in.
IndexAppend(index, keywords, entry) ==
    [kw \in DOMAIN index \cup keywords |->
        IF kw \in keywords
        THEN Append(IF kw \in DOMAIN index THEN index[kw] ELSE <<>>, entry)
        ELSE index[kw]]

RECURSIVE IndexItemsLongWords(_, _, _, _)
\* The loop of lines 54-59 with an index-time extractor that keeps only the
\* words of three characters or more.
IndexItemsLongWords(index, source, items, i) ==
    IF i > Len(items) THEN index
    ELSE IndexItemsLongWords(
            IndexAppend(index, {kw \in KeywordSet(Str(items[i])) : Len(kw) >= 3},
                        <<source, items[i]>>),
            source, items, i + 1)

RECURSIVE IndexItems(_, _, _, _)
\* for item in items (lines 54-59).
IndexItems(index, source, items, i) ==
    IF i > Len(items) THEN index
    ELSE IndexItems(IndexAppend(index, KeywordSet(Str(items[i])), <<source, items[i]>>),
                    source, items, i + 1)

RECURSIVE IndexSources(_, _, _)
\* for source, items in self.data.items() (line 53).
IndexSources(index, dict, i) ==
    IF i > Len(dict) THEN index
    ELSE IndexSources(IndexItems(index, dict[i].source, dict[i].items, 1), dict, i + 1)

\* The empty defaultdict(list): a function with no keys.
EmptyIndex == [kw \in {} |-> <<>>]

\* build_search_index on the empty index.
BuildSearchIndex(dict) == IndexSources(EmptyIndex, dict, 1)

-----------------------------------------------------------------------------
(* search (lines 74-99) and get_relevant_context (lines 101-115).          *)

\* max_results when the caller gives none (line 74).
DefaultMaxResults == 5

\* self.search_index[keyword] on the defaultdict: a missing keyword is
\* inserted with an empty bucket.
LookupBucketInserting(index, keyword) ==
    IF keyword \in DOMAIN index
    THEN [bucket |-> index[keyword], index |-> index]
    ELSE [bucket |-> <<>>,
          index |-> [kw \in DOMAIN index \cup {keyword} |->
                        IF kw = keyword THEN <<>> ELSE index[kw]]]

\* self.search_index.get(keyword, []) (line 88): the bucket, or the empty
\* list for a missing keyword, and the index as the lookup leaves it.
LookupBucket(index, keyword) ==
    IF keyword \in DOMAIN index
    THEN [bucket |-> index[keyword], index |-> index]
    ELSE [bucket |-> <<>>, index |-> index]

\* results[key] += 1 on a defaultdict(int) (line 90): a new key is appended
\* with the value 1, a known key keeps its place.
Increment(res, key) ==
    IF \E i \in 1..Len(res) : res[i].key = key
    THEN [i \in 1..Len(res) |->
            IF res[i].key = key THEN [key |-> key, score |-> res[i].score + 1] ELSE res[i]]
    ELSE Append(res, [key |-> key, score |-> 1])

RECURSIVE ScoreBucket(_, _, _)
\* for source, item in bucket (lines 88-90): the key is (source, str(item)).
ScoreBucket(res, bucket, i) ==
    IF i > Len(bucket) THEN res
    ELSE ScoreBucket(Increment(res, <<bucket[i][1], Str(bucket[i][2])>>), bucket, i + 1)

RECURSIVE ScoreKeywords(_, _, _)
\* for keyword in query_keywords (lines 87-90), on [index, results].
ScoreKeywords(st, order, i) ==
    IF i > Len(order) THEN st
    ELSE LET found == LookupBucket(st.index, order[i])
         IN ScoreKeywords([index |-> found.index,
                           results |-> ScoreBucket(st.results, found.bucket, 1)],
                          order, i + 1)

\* Where a stable descending sort puts e into an already sorted list: before
\* the first entry of lower score, after every entry of equal score.
InsertionPoint(sorted, e) ==
    IF \E i \in 1..Len(sorted) : sorted[i].score < e.score
    THEN CHOOSE i \in 1..Len(sorted) :
            /\ sorted[i].score < e.score
            /\ \A j \in 1..(i - 1) : sorted[j].score >= e.score
    ELSE Len(sorted) + 1

RECURSIVE SortFrom(_, _, _)
SortFrom(res, i, sorted) ==
    IF i > Len(res) THEN sorted
    ELSE LET at == InsertionPoint(sorted, res[i])
         IN SortFrom(res, i + 1,
                     SubSeq(sorted, 1, at - 1) \o <<res[i]>> \o SubSeq(sorted, at, Len(sorted)))

\* The reverse of a sequence.
Reverse(s) == [i \in 1..Len(s) |-> s[Len(s) + 1 - i]]

\* An ascending stable sort read backwards: descending, with ties reversed.
SortedAscendingReversed(res) ==
    LET Negated(seq) == [i \in 1..Len(seq) |-> [key |-> seq[i].key, score |-> 0 - seq[i].score]]
    IN Reverse(Negated(SortFrom(Negated(res), 1, <<>>)))

\* sorted(results.items(), key=lambda x: x[1], reverse=True) (line 93):
\* descending by score; sorted() is stable, also under reverse=True.
SortedByScore(res) == SortFrom(res, 1, <<>>)

\* seq[:n + 1]
SliceOneMore(seq, n) ==
    IF n + 1 >= 0
    THEN SubSeq(seq, 1, IF n + 1 < Len(seq) THEN n + 1 ELSE Len(seq))
    ELSE SubSeq(seq, 1, Len(seq) + n + 1)

\* seq[:n] (line 98): the first n entries, all of them when n >= len(seq);
\* a negative n counts from the end, seq[:-1] being all but the last.
Slice(seq, n) ==
    IF n >= 0
    THEN SubSeq(seq, 1, IF n < Len(seq) THEN n ELSE Len(seq))
    ELSE SubSeq(seq, 1, Len(seq) + n)

\* The list comprehension of lines 96-99.
Hits(sorted, max_results) ==
    LET top == Slice(sorted, max_results)
    IN [i \in 1..Len(top) |-> [source |-> top[i].key[1], item |-> Eval(top[i].key[2])]]

\* search, given the order its query keywords came in: the index after the
\* call and the locals results, sorted_results and the returned list.
SearchRun(index, order, max_results) ==
    LET scored == ScoreKeywords([index |-> index, results |-> <<>>], order, 1)
        sorted == SortedByScore(scored.results)
    IN [index |-> scored.index,
        results |-> scored.results,
        sorted_results |-> sorted,
        returned |-> Hits(sorted, max_results)]

\* The f-string of line 113 and the join of line 115, the two labels being
\* kept as one element each.
ContextOf(hits) ==
    Join([i \in 1..Len(hits) |->
            <<"source: ">> \o hits[i].source \o <<"\n", "item: ">>
            \o JsonDumps(hits[i].item)],
         <<"\n", "\n">>)

-----------------------------------------------------------------------------
(* HS_PATTERN (lines 125-128) and extract_hs_codes (lines 130-139).        *)
(* Positions are 1-based: position p is the place before t[p], and         *)
(* Len(t) + 1 is the end of the text.                                      *)

IsDigit(c) == c \in DigitChars

\* Whether the character at position p exists and is a word character.
WordAt(t, p) == p >= 1 /\ p <= Len(t) /\ IsWordChar(t[p])

\* \b at position p: a word character on exactly one side.
Boundary(t, p) == WordAt(t, p - 1) # WordAt(t, p)

\* str.lower() on one character.
ToLower(c) ==
    IF \E i \in 1..26 : UpperCase[i] = c
    THEN LowerCase[CHOOSE i \in 1..26 : UpperCase[i] = c]
    ELSE c

\* (?:HS) under re.IGNORECASE at position p.
PrefixAt(t, p) == p + 1 <= Len(t) /\ ToLower(t[p]) = "h" /\ ToLower(t[p + 1]) = "s"

\* \d{n} at position p.
DigitsAt(t, p, n) == p + n - 1 <= Len(t) /\ \A k \in 0..(n - 1) : IsDigit(t[p + k])

\* [.-]\d{2} at position p.
GroupAt(t, p) == p <= Len(t) /\ t[p] \in {".", "-"} /\ DigitsAt(t, p + 1, 2)

\* How many of the three nested optional groups match at position p, each
\* being tried only after the one before it.
GroupsAt(t, p) ==
    IF ~GroupAt(t, p) THEN 0
    ELSE IF ~GroupAt(t, p + 3) THEN 1
    ELSE IF ~GroupAt(t, p + 6) THEN 2
    ELSE 3

\* The number of whitespace characters from position p on.
RECURSIVE SpacesAt(_, _)
SpacesAt(t, p) == IF p <= Len(t) /\ IsSpaceChar(t[p]) THEN 1 + SpacesAt(t, p + 1) ELSE 0

\* \d{4}(?:...)?\b at position p: the end of the match, or 0. The optional
\* groups are greedy: the most groups first, then one fewer on backtracking,
\* until the final \b holds.
DigitsMatch(t, p) ==
    IF ~DigitsAt(t, p, 4) THEN 0
    ELSE LET most == GroupsAt(t, p + 4)
             ok == {g \in 0..most : Boundary(t, p + 4 + 3 * g)}
         IN IF ok = {} THEN 0
            ELSE p + 4 + 3 * (CHOOSE g \in ok : \A h \in ok : h <= g)

\* \s*\d{4}...\b at position p: the whitespace is greedy, the longest run
\* first and one character fewer on backtracking.
SpacesMatch(t, p) ==
    LET ok == {n \in 0..SpacesAt(t, p) : DigitsMatch(t, p + n) # 0}
    IN IF ok = {} THEN 0
       ELSE DigitsMatch(t, p + (CHOOSE n \in ok : \A m \in ok : m <= n))

\* The whole pattern at position p: the end of the match, or 0 for none.
\* The optional prefix is tried first and given up on backtracking.
MatchAt(t, p) ==
    IF ~Boundary(t, p) THEN 0
    ELSE IF PrefixAt(t, p) /\ SpacesMatch(t, p + 2) # 0 THEN SpacesMatch(t, p + 2)
    ELSE SpacesMatch(t, p)

RECURSIVE FindAllFrom(_, _, _)
\* HS_PATTERN.findall(text): the leftmost matches, none overlapping, as the
\* matched substrings (the pattern has no capturing group).
FindAllFrom(t, p, acc) ==
    IF p > Len(t) THEN acc
    ELSE LET e == MatchAt(t, p)
         IN IF e = 0
            THEN FindAllFrom(t, p + 1, acc)
            ELSE FindAllFrom(t, e, Append(acc, SubSeq(t, p, e - 1)))

FindAll(t) == FindAllFrom(t, 1, <<>>)

\* re.sub(r'\D', '', raw) (line 136): the digits of raw.
DigitsOnly(raw) == SelectSeq(raw, IsDigit)

\* The loop body of lines 134-138 without the membership test.
CollectAlways(codes, raw) ==
    LET code == DigitsOnly(raw)
    IN IF code # <<>> THEN Append(codes, code) ELSE codes

\* The loop body of lines 134-138: a non-empty code not yet collected is
\* appended.
Collect(codes, raw) ==
    LET code == DigitsOnly(raw)
    IN IF code # <<>> /\ code \notin Range(codes) THEN Append(codes, code) ELSE codes

RECURSIVE CollectFrom(_, _, _)
CollectFrom(raws, i, codes) ==
    IF i > Len(raws) THEN codes
    ELSE CollectFrom(raws, i + 1, Collect(codes, raws[i]))

\* The list extract_hs_codes returns for the matches raws.
CollectCodes(raws) == CollectFrom(raws, 1, <<>>)

-----------------------------------------------------------------------------
(* lookup_hscode (lines 164-192).                                          *)
(* An element of the reference document is [isdict, hascode, code, text]:  *)
(* a JSON object with or without a "code" field, or (isdict = FALSE) a     *)
(* JSON value that is no object and so has no get method.                  *)

\* A reference entry {"code": code, "text": txt}.
Entry(code, txt) == [isdict |-> TRUE, hascode |-> TRUE, code |-> code, text |-> txt]
\* A dict {"text": txt} without a code.
NoCode(txt) == [isdict |-> TRUE, hascode |-> FALSE, code |-> <<>>, text |-> txt]
\* An element of the document that is no dict.
NonDict == [isdict |-> FALSE, hascode |-> FALSE, code |-> <<>>, text |-> "not a dict"]

\* The initial values of lines 171-173 and the values of line 192.
SectionNotFound == NoCode("no explanation found for this section")
HeadingNotFound == NoCode("no explanation found for this heading")
SubheadingNotFound == NoCode("no explanation found for this subheading")
ErrorResult == NoCode("an error occurred")

\* item.get("code", "")
GetCode(item) == IF item.hascode THEN item.code ELSE <<>>

\* hs_code[:n]
Prefix(code, n) == SubSeq(code, 1, IF n < Len(code) THEN n ELSE Len(code))

RECURSIVE NextMatch(_, _, _, _)
\* next((item for item in data if item.get("code", "") == wanted), default):
\* the generator is consumed up to its first match, and item.get raises
\* AttributeError on an element that is no dict.
NextMatch(entries, i, wanted, default) ==
    IF i > Len(entries) THEN [exc |-> "none", value |-> default]
    ELSE IF ~entries[i].isdict THEN [exc |-> "AttributeError", value |-> default]
    ELSE IF GetCode(entries[i]) = wanted THEN [exc |-> "none", value |-> entries[i]]
    ELSE NextMatch(entries, i + 1, wanted, default)

\* One of the three blocks of lines 176-186 with the length test dropped:
\* the lookup of hs_code[:n] is made for a code of any length.
LevelUnguarded(entries, code, n, default) ==
    NextMatch(entries, 1, Prefix(code, n), default)

\* One of the three blocks of lines 176-186: the lookup of hs_code[:n] when
\* the code has at least n characters, the initial value otherwise.
Level(entries, code, n, default) ==
    IF Len(code) >= n
    THEN NextMatch(entries, 1, Prefix(code, n), default)
    ELSE [exc |-> "none", value |-> default]

\* What lookup_hscode returns.
Returned3(a, b, c) ==
    [done |-> TRUE, explanation |-> a, type_explanation |-> b, number_explanation |-> c]

\* lookup_hscode(hs_code, json_file) on the file state ref: the try block
\* runs the three lookups in order, and the except clause of lines 190-192
\* turns any exception into three error values.
LookupHscode(code, ref) ==
    IF ~ref.exists THEN Returned3(ErrorResult, ErrorResult, ErrorResult)
    ELSE LET section == Level(ref.entries, code, 2, SectionNotFound)
             heading == Level(ref.entries, code, 4, HeadingNotFound)
             subheading == Level(ref.entries, code, 6, SubheadingNotFound)
         IN IF section.exc # "none" \/ heading.exc # "none" \/ subheading.exc # "none"
            THEN Returned3(ErrorResult, ErrorResult, ErrorResult)
            ELSE Returned3(section.value, heading.value, subheading.value)

-----------------------------------------------------------------------------
(* classify_question (lines 244-281).                                      *)

WebSearch == <<"w", "e", "b", "_", "s", "e", "a", "r", "c", "h">>
HsClassification == <<"h", "s", "_", "c", "l", "a", "s", "s", "i", "f", "i", "c", "a", "t", "i", "o", "n">>
HsManual == <<"h", "s", "_", "m", "a", "n", "u", "a", "l">>
\* The list of line 275.
Labels == {WebSearch, HsClassification, HsManual}

RECURSIVE StripLeft(_)
StripLeft(t) == IF t # <<>> /\ IsSpaceChar(Head(t)) THEN StripLeft(Tail(t)) ELSE t

RECURSIVE StripRight(_)
StripRight(t) ==
    IF t # <<>> /\ IsSpaceChar(t[Len(t)]) THEN StripRight(SubSeq(t, 1, Len(t) - 1)) ELSE t

\* str.strip()
Strip(t) == StripRight(StripLeft(t))

\* str.lower()
Lower(t) == [i \in 1..Len(t) |-> ToLower(t[i])]

\* The answer of line 273 without the normalisation.
RawAnswer(t) == t

\* response.text.strip().lower() (line 273).
NormalizedAnswer(t) == Lower(Strip(t))

\* classify_question's try block and fallback (lines 270-281) on what the
\* generative call does: any Exception is caught and printed, and a failed
\* or out-of-set answer falls through to the default label. Nothing escapes.
Classify(call) ==
    IF call.raises
    THEN [done |-> TRUE, raised |-> "none", label |-> HsClassification]
    ELSE IF NormalizedAnswer(call.text) \in Labels
         THEN [done |-> TRUE, raised |-> "none", label |-> NormalizedAnswer(call.text)]
         ELSE [done |-> TRUE, raised |-> "none", label |-> HsClassification]

-----------------------------------------------------------------------------
(* Bounds and inputs.                                                      *)

\* The largest explicit max_results argument, the default aside.
MaxArg == 2
\* The number of content assignments tried on the full directory.
MaxVariant == 2
\* The most pieces a text given to extract_hs_codes is made of.
MaxPieces == 5
\* The most entries of a reference document.
MaxEntries == 3
\* The most whitespace characters on either side of the model's answer.
MaxPad == 1

\* The max_results arguments: negative, zero, small, and the default.
MaxResultsArgs == (-1..MaxArg) \cup {DefaultMaxResults}

\* The queries: one keyword, two keywords that tie on distinct records, a
\* field name every record holds, words no record holds (one of them too
\* short to be a keyword), two keywords split by punctuation, and the empty
\* query.
Queries ==
    { <<"t", "v">>,
      <<"t", "v", " ", "p", "c">>,
      <<"n", "m">>,
      <<"z", "z", ",", " ", "a">>,
      <<"p", "c", ".", "n", "m">>,
      <<>> }

\* A corpus file: absent, or any list of at most n records.
FileStates(n) == {Absent} \cup {Present(l) : l \in RecordLists(n)}

\* The directories of the retriever's corpora: only the first partition
\* (at most MaxRecs records) and the first decision file (at most one
\* record) may exist.
SmallDisks ==
    {[path \in AllPaths |->
        IF path = PartPath(1) THEN a ELSE IF path = OtherFiles[1] THEN b ELSE Absent] :
     a \in FileStates(MaxRecs), b \in FileStates(1)}

\* The number of a configured file, in load order.
FileNo(path) ==
    IF \E i \in 1..NumParts : PartPath(i) = path
    THEN CHOOSE i \in 1..NumParts : PartPath(i) = path
    ELSE NumParts + (CHOOSE i \in 1..Len(OtherFiles) : OtherFiles[i] = path)

\* The record lists the files of the full directory hold.
CorpusLists ==
    << <<>>, <<RecTv>>, <<RecPc, RecTv>>, <<RecTvPc, RecTvPc, RecPc>>, <<RecPc>> >>

\* The directories in which any subset of the twelve configured files
\* exists, file k holding the list at place k + v of CorpusLists, cyclically.
FullDisks ==
    {[path \in AllPaths |->
        IF path \in present
        THEN Present(CorpusLists[((FileNo(path) + v) % Len(CorpusLists)) + 1])
        ELSE Absent] :
     present \in SUBSET AllPaths, v \in 1..MaxVariant}

\* The pieces the texts given to extract_hs_codes are made of.
Pieces ==
    { <<"H", "S">>, <<" ">>, <<"8", "5", "1", "7">>, <<".">>, <<"-">>,
      <<"6", "2">>, <<"x">> }

\* The examples of the extractor's documentation.
ExampleTexts ==
    { <<"H", "S", " ", "8", "5", "1", "7", ".", "6", "2", ",", " ", "a", "l", "s", "o", " ", "8", "5", "1", "7">>,
      <<"8", "5", "1", "7", " ", "a", "n", "d", " ", "8", "5", "1", "7", " ", "a", "g", "a", "i", "n">>,
      <<"h", "s", "8", "5", "1", "7", "-", "6", "2", "-", "1", "0", "-", "0", "0", ";", "8", "5", "1", "7", " ", "8", "5", "1", "7", ".", "6", "2", " ", "H", "S", " ", "8", "5", "1", "7">> }

\* Every text of at most MaxPieces pieces, and the examples.
Texts ==
    {Concat(ps) : ps \in UNION {[1..k -> Pieces] : k \in 0..MaxPieces}} \cup ExampleTexts

\* The elements a reference document is made of: two entries for each of
\* three codes, a dict without code, and an element that is no dict.
EntryKinds ==
    {Entry(c, t) : c \in {<<"8", "5">>, <<"8", "5", "1", "7">>, <<"8", "5", "1", "7", "6", "2">>},
                   t \in {"first text", "second text"}}
    \cup {NoCode("first text"), NonDict}

\* The reference file: missing, or a document of at most MaxEntries elements.
References ==
    {[exists |-> FALSE, entries |-> <<>>]}
    \cup {[exists |-> TRUE, entries |-> es] :
            es \in UNION {[1..k -> EntryKinds] : k \in 0..MaxEntries}}

\* The codes looked up: every prefix of an eight-digit code.
HsCodeArgs == {Prefix(<<"8", "5", "1", "7", "6", "2", "0", "0">>, n) : n \in 0..8}

\* Whitespace of at most n characters.
Pads(n) == UNION {[1..k -> {" ", "\n"}] : k \in 0..n}

\* What the model answers, before padding: each label in lower case, in
\* capitals and capitalised, and answers outside the set.
Cores ==
    { <<"w", "e", "b", "_", "s", "e", "a", "r", "c", "h">>,
      <<"W", "E", "B", "_", "S", "E", "A", "R", "C", "H">>,
      <<"W", "e", "b", "_", "s", "e", "a", "r", "c", "h">>,
      <<"h", "s", "_", "c", "l", "a", "s", "s", "i", "f", "i", "c", "a", "t", "i", "o", "n">>,
      <<"H", "S", "_", "C", "L", "A", "S", "S", "I", "F", "I", "C", "A", "T", "I", "O", "N">>,
      <<"H", "s", "_", "c", "l", "a", "s", "s", "i", "f", "i", "c", "a", "t", "i", "o", "n">>,
      <<"h", "s", "_", "m", "a", "n", "u", "a", "l">>,
      <<"H", "S", "_", "M", "A", "N", "U", "A", "L">>,
      <<"H", "s", "_", "m", "a", "n", "u", "a", "l">>,
      <<"w", "e", "b", " ", "s", "e", "a", "r", "c", "h">>,
      <<"h", "s", "_", "m", "a", "n", "u", "a", "l", ".">>,
      <<>>,
      <<"h", "s">>,
      <<"h", "s", "_", "c", "l", "a", "s", "s", "i", "f", "i", "c", "a", "t", "i", "o", "n", " ", "h", "s", "_", "m", "a", "n", "u", "a", "l">> }

\* What the generative call does: it raises, or it answers a padded core.
LlmCalls ==
    {[raises |-> TRUE, text |-> <<>>]}
    \cup {[raises |-> FALSE, text |-> l \o c \o r] :
            l \in Pads(MaxPad), c \in Cores, r \in Pads(MaxPad)}

-----------------------------------------------------------------------------
(* Initial states.                                                         *)

NoCall == [op |-> "none", query |-> <<>>, max_results |-> 0, order |-> <<>>]

\* A manager object before __init__ has run on directory d.
ManagerNew(d) ==
    /\ disk = d
    /\ data = <<>>
    /\ search_index = EmptyIndex
    /\ phase = "new"
    /\ raised = "none"
    /\ lastCall = NoCall
    /\ results = <<>>
    /\ sorted_results = <<>>
    /\ returned = <<>>
    /\ context = <<>>

\* No manager object.
ManagerIdle ==
    /\ disk = [path \in AllPaths |-> Absent]
    /\ data = <<>>
    /\ search_index = EmptyIndex
    /\ phase = "idle"
    /\ raised = "none"
    /\ lastCall = NoCall
    /\ results = <<>>
    /\ sorted_results = <<>>
    /\ returned = <<>>
    /\ context = <<>>

CodesNew(t) == text = t /\ matches = <<>> /\ hs_codes = <<>> /\ codesDone = FALSE
CodesIdle == CodesNew(<<>>)

NoLookup == [done |-> FALSE, explanation |-> ErrorResult,
             type_explanation |-> ErrorResult, number_explanation |-> ErrorResult]
LookupNew(ref, code) == reference = ref /\ hs_code = code /\ lookup = NoLookup
LookupIdle == LookupNew([exists |-> FALSE, entries |-> <<>>], <<>>)

NoAnswer == [done |-> FALSE, raised |-> "none", label |-> <<>>]
ClassifyNew(call, key) ==
    llm = call /\ api_key = key /\ configured = FALSE /\ answer = NoAnswer
ClassifyIdle == ClassifyNew([raises |-> FALSE, text |-> <<>>], FALSE)

\* The retriever over a small directory.
Init ==
    /\ \E d \in SmallDisks : ManagerNew(d)
    /\ CodesIdle /\ LookupIdle /\ ClassifyIdle

\* The loader over the full directory.
InitLoad ==
    /\ \E d \in FullDisks : ManagerNew(d)
    /\ CodesIdle /\ LookupIdle /\ ClassifyIdle

InitCodes ==
    /\ \E t \in Texts : CodesNew(t)
    /\ ManagerIdle /\ LookupIdle /\ ClassifyIdle

InitLookup ==
    /\ \E ref \in References, code \in HsCodeArgs : LookupNew(ref, code)
    /\ ManagerIdle /\ CodesIdle /\ ClassifyIdle

InitClassify ==
    /\ \E call \in LlmCalls, key \in BOOLEAN : ClassifyNew(call, key)
    /\ ManagerIdle /\ CodesIdle /\ LookupIdle

-----------------------------------------------------------------------------
(* The operations.                                                         *)

\* __init__ (lines 17-22): load_all_data, then build_search_index.
Construct ==
    /\ phase = "new"
    /\ LET loaded == LoadAllData(disk)
       IN /\ data' = loaded.data
          /\ raised' = loaded.raised
          /\ search_index' = IF loaded.raised = "none"
                             THEN BuildSearchIndex(loaded.data)
                             ELSE search_index
          /\ phase' = IF loaded.raised = "none" THEN "ready" ELSE "failed"
    /\ UNCHANGED <<disk, lastCall, results, sorted_results, returned, context>>
    /\ UNCHANGED <<codesVars, lookupVars, classifyVars>>

\* search(query, max_results); no context string is built.
Search(query, max_results) ==
    /\ phase = "ready"
    /\ \E order \in ExtractKeywords(query) :
          LET run == SearchRun(search_index, order, max_results)
          IN /\ search_index' = run.index
             /\ results' = run.results
             /\ sorted_results' = run.sorted_results
             /\ returned' = run.returned
             /\ lastCall' = [op |-> "search", query |-> query,
                             max_results |-> max_results, order |-> order]
             /\ context' = <<>>
    /\ UNCHANGED <<disk, data, phase, raised>>
    /\ UNCHANGED <<codesVars, lookupVars, classifyVars>>

\* get_relevant_context(query): search(query) with the default max_results,
\* then the formatted context.
GetRelevantContext(query) ==
    /\ phase = "ready"
    /\ \E order \in ExtractKeywords(query) :
          LET run == SearchRun(search_index, order, DefaultMaxResults)
          IN /\ search_index' = run.index
             /\ results' = run.results
             /\ sorted_results' = run.sorted_results
             /\ returned' = run.returned
             /\ context' = ContextOf(run.returned)
             /\ lastCall' = [op |-> "get_relevant_context", query |-> query,
                             max_results |-> DefaultMaxResults, order |-> order]
    /\ UNCHANGED <<disk, data, phase, raised>>
    /\ UNCHANGED <<codesVars, lookupVars, classifyVars>>

\* extract_hs_codes(text).
ExtractHsCodes ==
    /\ ~codesDone
    /\ matches' = FindAll(text)
    /\ hs_codes' = CollectCodes(FindAll(text))
    /\ codesDone' = TRUE
    /\ UNCHANGED text
    /\ UNCHANGED <<managerVars, lookupVars, classifyVars>>

\* lookup_hscode(hs_code, json_file).
LookupHscodeCall ==
    /\ ~lookup.done
    /\ lookup' = LookupHscode(hs_code, reference)
    /\ UNCHANGED <<reference, hs_code>>
    /\ UNCHANGED <<managerVars, codesVars, classifyVars>>

\* classify_question(user_input, api_key): genai is configured when a key is
\* given (lines 256-257), then the generative call is made and its answer
\* checked.
ClassifyQuestion ==
    /\ ~answer.done
    /\ configured' = api_key
    /\ answer' = Classify(llm)
    /\ UNCHANGED <<llm, api_key>>
    /\ UNCHANGED <<managerVars, codesVars, lookupVars>>

Next ==
    \/ Construct
    \/ \E query \in Queries, max_results \in MaxResultsArgs : Search(query, max_results)
    \/ \E query \in Queries : GetRelevantContext(query)

\* The retriever: construction, then any calls of search and
\* get_relevant_context.
Spec == Init /\ [][Next]_vars

\* The loader on every subset of the configured files.
SpecLoad == InitLoad /\ [][Construct]_vars

\* The code extractor on every text.
SpecCodes == InitCodes /\ [][ExtractHsCodes]_vars

\* The explanation lookup on every reference file and code.
SpecLookup == InitLookup /\ [][LookupHscodeCall]_vars

\* The classifier on every behaviour of the generative call.
SpecClassify == InitClassify /\ [][ClassifyQuestion]_vars

-----------------------------------------------------------------------------
(* Vocabulary of the properties.                                           *)

\* A retriever call has returned.
Called == lastCall.op # "none"

\* The (source, record) pairs of the corpus.
CorpusPairs ==
    UNION {{<<data[i].source, data[i].items[j]>> : j \in 1..Len(data[i].items)} :
            i \in 1..Len(data)}

\* The pairs of the corpus whose serialization holds a keyword of query.
Matching(query) ==
    {pair \in CorpusPairs : KeywordSet(Str(pair[2])) \cap KeywordSet(query) # {}}

\* The key search scores a pair under.
KeyOf(pair) == <<pair[1], Str(pair[2])>>

\* The place of key in the scored list, 0 when it is not there.
PlaceOf(scored, key) ==
    IF \E i \in 1..Len(scored) : scored[i].key = key
    THEN CHOOSE i \in 1..Len(scored) : scored[i].key = key
    ELSE 0

\* The bucket of a keyword as the index holds it.
BucketOf(keyword) == IF keyword \in DOMAIN search_index THEN search_index[keyword] ELSE <<>>

\* The key was met at entry j of the bucket of the i-th query keyword.
MetAt(key, i, j) ==
    /\ i \in 1..Len(lastCall.order)
    /\ j \in 1..Len(BucketOf(lastCall.order[i]))
    /\ KeyOf(BucketOf(lastCall.order[i])[j]) = key

\* The key was first met before the other key while scoring.
MetBefore(key, other) ==
    \E i \in 1..Len(lastCall.order) :
        \E j \in 1..Len(BucketOf(lastCall.order[i])) :
            /\ MetAt(key, i, j)
            /\ \A k \in 1..i : \A l \in 1..Len(BucketOf(lastCall.order[k])) :
                  MetAt(other, k, l) => (k = i /\ l > j)

\* The configured path of a source key.
SourceKey(path) ==
    IF FileNo(path) <= NumParts THEN <<"HS_case_part", FormatInt(FileNo(path))>>
    ELSE <<path[1], path[2]>>

\* The sources the corpus holds.
Sources == {data[i].source : i \in 1..Len(data)}

-----------------------------------------------------------------------------
(* The properties.                                                         *)

\* C1: loading never raises whatever subset of the configured files is
\* absent; an absent file's source is no key of the corpus, and every file
\* that is present is loaded once, under its own source key, with its
\* records unchanged, and the corpus holds nothing else.
C1_MissingFilesTolerated ==
    phase # "new" =>
        /\ phase = "ready"
        /\ raised = "none"
        /\ \A path \in AllPaths :
              IF disk[path].exists
              THEN /\ Cardinality({i \in 1..Len(data) : data[i].source = SourceKey(path)}) = 1
                   /\ \A i \in 1..Len(data) :
                         data[i].source = SourceKey(path) => data[i].items = disk[path].records
              ELSE SourceKey(path) \notin Sources
        /\ Sources \subseteq {SourceKey(path) : path \in AllPaths}

\* C1 witness: the load has finished on a directory where a partition and a
\* decision file are absent and later files are present.
C1_Witness ==
    /\ phase = "ready"
    /\ ~disk[PartPath(3)].exists /\ disk[PartPath(4)].exists
    /\ ~disk[OtherFiles[1]].exists /\ disk[OtherFiles[2]].exists
    /\ <<"knowledge/", "HS_council">> \in Sources
    /\ <<"HS_case_part", "4">> \in Sources

\* C2 as claimed: the score of every scored record is the number of query
\* keywords whose bucket holds the record.
C2_ScoreIsKeywordCount ==
    Called =>
        \A i \in 1..Len(results) :
            results[i].score =
                Cardinality({kw \in KeywordSet(lastCall.query) :
                                \E j \in 1..Len(BucketOf(kw)) :
                                    KeyOf(BucketOf(kw)[j]) = results[i].key})

\* C3: the sorted list is the scored list reordered by non-increasing score,
\* hits of equal score keep the order in which they were first met while
\* scoring, and the returned list is a prefix of the sorted list.
C3_StableDescendingOrder ==
    Called =>
        /\ Len(sorted_results) = Len(results)
        /\ Range(sorted_results) = Range(results)
        /\ \A i, j \in 1..Len(sorted_results) :
              i < j =>
                 /\ sorted_results[i].score >= sorted_results[j].score
                 /\ sorted_results[i].score = sorted_results[j].score =>
                       /\ PlaceOf(results, sorted_results[i].key)
                             < PlaceOf(results, sorted_results[j].key)
                       /\ MetBefore(sorted_results[i].key, sorted_results[j].key)
        /\ Len(returned) <= Len(sorted_results)
        /\ \A i \in 1..Len(returned) :
              KeyOf(<<returned[i].source, returned[i].item>>) = sorted_results[i].key

\* C3 witness: three hits were returned, the first of higher score and the
\* other two tied.
C3_Witness ==
    /\ Called
    /\ Len(returned) = 3
    /\ sorted_results[1].score > sorted_results[2].score
    /\ sorted_results[2].score = sorted_results[3].score

\* C4 as claimed, for the calls that ask for one result or more: every
\* record whose serialization shares a keyword with the query is in the
\* returned list.
C4_SharedKeywordAlwaysReturned ==
    (Called /\ lastCall.max_results >= 1) =>
        \A pair \in Matching(lastCall.query) :
            \E i \in 1..Len(returned) :
                returned[i] = [source |-> pair[1], item |-> pair[2]]

\* C4 amended: every record whose serialization shares a keyword with the
\* query is scored, and it is in the returned list whenever max_results is
\* at least the number of scored records.
C4_SharedKeywordReturnedUnlessTruncated ==
    Called =>
        \A pair \in Matching(lastCall.query) :
            /\ PlaceOf(results, KeyOf(pair)) # 0
            /\ lastCall.max_results >= Len(results) =>
                  \E i \in 1..Len(returned) :
                      returned[i] = [source |-> pair[1], item |-> pair[2]]

\* C4 witness: a query of two keywords matched records of both sources and
\* all of them were returned.
C4_Witness ==
    /\ Called
    /\ Cardinality(KeywordSet(lastCall.query)) = 2
    /\ Cardinality({pair[1] : pair \in Matching(lastCall.query)}) = 2
    /\ lastCall.max_results >= Len(results)
    /\ Len(returned) = Len(results)

\* The returned list holds every matching record once and nothing else.
ReturnsAllMatches ==
    /\ \A pair \in Matching(lastCall.query) :
          Cardinality({i \in 1..Len(returned) :
                          returned[i] = [source |-> pair[1], item |-> pair[2]]}) = 1
    /\ \A i \in 1..Len(returned) :
          <<returned[i].source, returned[i].item>> \in Matching(lastCall.query)

\* C5 as claimed: for every integer max_results the returned list has at
\* most max_results entries, none for 0, and every matching record once when
\* max_results is at least their number.
C5_AtMostMaxResults ==
    Called =>
        /\ Len(returned) <= lastCall.max_results
        /\ lastCall.max_results = 0 => returned = <<>>
        /\ lastCall.max_results >= Cardinality(Matching(lastCall.query)) => ReturnsAllMatches

\* C5 amended: for every max_results >= 0 the returned list has at most
\* max_results entries, none for 0, and every matching record once and
\* nothing else when max_results is at least their number; for a negative
\* max_results it is the ranking without its last -max_results entries.
C5_TruncatedToMaxResults ==
    Called =>
        LET n == Cardinality(Matching(lastCall.query))
            m == lastCall.max_results
        IN /\ m >= 0 => Len(returned) <= m
           /\ m = 0 => returned = <<>>
           /\ m >= n => ReturnsAllMatches
           /\ m < 0 => Len(returned) = (IF n + m > 0 THEN n + m ELSE 0)
           /\ m < 0 => \A i \in 1..Len(returned) :
                          KeyOf(<<returned[i].source, returned[i].item>>)
                              = sorted_results[i].key

\* C5 witness: search was given more room than there are matches and
\* returned the two or more matches, unpadded.
C5_Witness ==
    /\ lastCall.op = "search"
    /\ Cardinality(Matching(lastCall.query)) >= 2
    /\ lastCall.max_results > Cardinality(Matching(lastCall.query))
    /\ Len(returned) = Cardinality(Matching(lastCall.query))

\* C6: once construction has completed, no call changes the index (its keys,
\* and every bucket's contents and order) or the corpus.
C6_ReadOnlyAfterConstruction ==
    [][phase = "ready" => (search_index' = search_index /\ data' = data)]_vars

\* C6 witness: a call has returned whose query held a keyword that is no key
\* of a non-empty index, and a keyword that is one.
C6_Witness ==
    /\ Called
    /\ phase = "ready"
    /\ \E kw \in KeywordSet(lastCall.query) : kw \notin DOMAIN search_index
    /\ \E kw \in KeywordSet(lastCall.query) : kw \in DOMAIN search_index

\* The place of the first match whose digits are code.
FirstMatchOf(code) == CHOOSE i \in 1..Len(matches) :
    /\ DigitsOnly(matches[i]) = code
    /\ \A j \in 1..(i - 1) : DigitsOnly(matches[j]) # code

\* C7: the returned codes hold no duplicate, each is a non-empty string of
\* digits, they are the codes of the matches, in the order of each code's
\* first match in the text; the two documented examples give the documented
\* lists.
C7_CodesUniqueNumericOrdered ==
    codesDone =>
        /\ \A i, j \in 1..Len(hs_codes) : i # j => hs_codes[i] # hs_codes[j]
        /\ \A i \in 1..Len(hs_codes) :
              /\ hs_codes[i] # <<>>
              /\ \A k \in 1..Len(hs_codes[i]) : hs_codes[i][k] \in DigitChars
        /\ Range(hs_codes) = {DigitsOnly(matches[i]) : i \in 1..Len(matches)} \ {<<>>}
        /\ \A i, j \in 1..Len(hs_codes) :
              i < j => FirstMatchOf(hs_codes[i]) < FirstMatchOf(hs_codes[j])
        /\ text = <<"H", "S", " ", "8", "5", "1", "7", ".", "6", "2", ",", " ", "a", "l", "s", "o", " ", "8", "5", "1", "7">> => hs_codes = <<<<"8", "5", "1", "7", "6", "2">>, <<"8", "5", "1", "7">>>>
        /\ text = <<"8", "5", "1", "7", " ", "a", "n", "d", " ", "8", "5", "1", "7", " ", "a", "g", "a", "i", "n">> => hs_codes = <<<<"8", "5", "1", "7">>>>

\* C7 witness: a text with more matches than codes, two codes or more having
\* been returned.
C7_Witness ==
    /\ codesDone
    /\ Len(matches) > Len(hs_codes)
    /\ Len(hs_codes) >= 2

\* The places of the reference entries whose code is the first n characters
\* of the code looked up.
MatchesOf(n) ==
    {i \in 1..Len(reference.entries) :
        /\ reference.entries[i].isdict
        /\ reference.entries[i].hascode
        /\ reference.entries[i].code = SubSeq(hs_code, 1, n)}

\* What a level resolves to on its own: the first entry whose code is hs_code[:n]
\* when the code has n characters and such an entry exists, the level's own
\* placeholder otherwise.
Resolved(n, placeholder) ==
    IF Len(hs_code) >= n /\ MatchesOf(n) # {}
    THEN reference.entries[CHOOSE i \in MatchesOf(n) : \A k \in MatchesOf(n) : i <= k]
    ELSE placeholder

\* The scan of a level meets an element that is no dict before any match.
ScanRaises(n) ==
    /\ Len(hs_code) >= n
    /\ \E i \in 1..Len(reference.entries) :
          /\ ~reference.entries[i].isdict
          /\ \A k \in MatchesOf(n) : i < k

\* The call raised inside its try block.
LookupFailed == ~reference.exists \/ ScanRaises(2) \/ ScanRaises(4) \/ ScanRaises(6)

\* C8 as claimed: each level is resolved on its own, whatever the others
\* resolve to.
C8_LevelsIndependent ==
    lookup.done =>
        /\ lookup.explanation = Resolved(2, SectionNotFound)
        /\ lookup.type_explanation = Resolved(4, HeadingNotFound)
        /\ lookup.number_explanation = Resolved(6, SubheadingNotFound)

\* C8 amended: when nothing raises inside the call each level is resolved on
\* its own; when the file cannot be read or a scan meets an element that is
\* no dict, all three results are the error value.
C8_LevelsIndependentUnlessError ==
    lookup.done =>
        IF LookupFailed
        THEN /\ lookup.explanation = ErrorResult
             /\ lookup.type_explanation = ErrorResult
             /\ lookup.number_explanation = ErrorResult
        ELSE /\ lookup.explanation = Resolved(2, SectionNotFound)
             /\ lookup.type_explanation = Resolved(4, HeadingNotFound)
             /\ lookup.number_explanation = Resolved(6, SubheadingNotFound)

\* C8 witness: a six-digit code, no entry for its first two digits, and the
\* heading and the subheading found.
C8_Witness ==
    /\ lookup.done
    /\ Len(hs_code) = 6
    /\ lookup.explanation = SectionNotFound
    /\ lookup.type_explanation.hascode
    /\ lookup.number_explanation.hascode

\* The text is label in any case, between whitespace.
AnswersLabel(t, label) ==
    \E before \in 0..Len(t) :
        /\ before + Len(label) <= Len(t)
        /\ \A k \in 1..before : IsSpaceChar(t[k])
        /\ \A k \in 1..Len(label) : ToLower(t[before + k]) = label[k]
        /\ \A k \in (before + Len(label) + 1)..Len(t) : IsSpaceChar(t[k])

\* C9: classify_question raises nothing and returns one of the three labels:
\* the label the model answered, up to case and surrounding whitespace, and
\* hs_classification when the call raised or answered anything else.
C9_ClosedLabelContract ==
    answer.done =>
        /\ answer.raised = "none"
        /\ answer.label \in {WebSearch, HsClassification, HsManual}
        /\ llm.raises => answer.label = HsClassification
        /\ ~llm.raises =>
              \A label \in {WebSearch, HsClassification, HsManual} :
                  AnswersLabel(llm.text, label) => answer.label = label
        /\ (~llm.raises /\ \A label \in {WebSearch, HsClassification, HsManual} :
                              ~AnswersLabel(llm.text, label))
              => answer.label = HsClassification

\* C9 witness: the model answered web_search in capitals with whitespace
\* around it, and web_search was returned.
C9_Witness ==
    /\ answer.done
    /\ ~llm.raises
    /\ llm.text # WebSearch
    /\ Len(llm.text) > Len(WebSearch)
    /\ llm.text[2] = "W"
    /\ answer.label = WebSearch

\* C10 as claimed, for the calls that ask for one result or more: the
\* returned list is the one every order of the query's keywords gives.
C10_OrderIndependent ==
    (Called /\ lastCall.max_results >= 1) =>
        \A order \in ExtractKeywords(lastCall.query) :
            SearchRun(search_index, order, lastCall.max_results).returned = returned

=============================================================================
